---- MODULE Spec2Model ----
(***************************************************************************)
(* AsyncCallbackJsonWebHandler (src/src/AsyncJson.cpp): the body callback  *)
(* handleBody that assembles a request body into the buffer hung on        *)
(* request->_tempObject, and the completion callback handleRequest that    *)
(* decodes the buffer once and dispatches to the user handler.             *)
(* AsyncWebServerRequest::send(fs, path, ...) and _getEtag                 *)
(* (src/src/AsyncWebServerRequest.cpp): the choice between a file and its  *)
(* .gz variant and the If-None-Match validation against the gzip trailer.  *)
(***************************************************************************)
EXTENDS Integers, Sequences, FiniteSets, TLC

VARIABLES
  onRequest,      \* the handler's _onRequest is set (a callback is registered)
  method,         \* method[r]: request->method()
  contentLength,  \* contentLength[r]: request->contentLength()
  tempObject,     \* tempObject[r]: request->_tempObject, NULL or the buffer it points to
  phase,          \* phase[r]: where the request is in its life
  sent,           \* sent[r]: the status codes request->send(code) was called with
  dispatched,     \* dispatched[r]: the values _onRequest(request, json) was called with
  g,              \* g[r]: history of the request (allocations, frees, decodes, last chunk)
  fs,             \* the filesystem as send(fs, path, ...) sees it
  call,           \* the arguments and headers of the send(fs, path, ...) call
  resp,           \* what send(fs, path, ...) did
  etag            \* a call of _getEtag(trailer, serverETag): its input and its output

vars == <<onRequest, method, contentLength, tempObject, phase, sent, dispatched, g,
          fs, call, resp, etag>>
jsonVars == <<onRequest, method, contentLength, tempObject, phase, sent, dispatched, g>>
sendVars == <<fs, call, resp, etag>>

(***************************************************************************)
(* Bounds.                                                                 *)
(***************************************************************************)
\* width of size_t in the model, in bits (32 on the ESP32)
SizeBits == 3
\* the configured _maxContentLength of the model's handler (16384 by default)
MaxContentLength == 3
\* the longest chunk handed to handleBody
MaxChunk == 1

SizeMod == 2 ^ SizeBits
SizeT == 0 .. (SizeMod - 1)
\* body bytes: 0 is NUL, the byte calloc fills with; 1 is a character that is a JSON value
Bytes == {0, 1}
Totals == 0 .. (MaxContentLength + 1)
Reqs == {1, 2}

HTTP_GET == "GET"
HTTP_POST == "POST"
Methods == {HTTP_GET, HTTP_POST}

\* a chunk's data: the byte strings of len bytes
Data(len) == [1 .. len -> Bytes]
ChunkLens == 0 .. MaxChunk

(***************************************************************************)
(* The buffer: AsyncJsonResponseBuffer {length; content[]} behind          *)
(* _tempObject. content[i], i in 1..length, is the C content[i-1].         *)
(***************************************************************************)
NULL == [null |-> TRUE, length |-> 0, content |-> <<>>]

\* the allocation as if it were malloc: the bytes are whatever the heap held
mallocGarbage(total) == [null |-> FALSE, length |-> total, content |-> [i \in 1 .. total |-> 1]]

\* calloc(1, sizeof(AsyncJsonResponseBuffer) + total), then ->length = total
calloc(total) == [null |-> FALSE, length |-> total, content |-> [i \in 1 .. total |-> 0]]

\* index + len in size_t arithmetic
AddSizeT(a, b) == (a + b) % SizeMod

\* the check as if it were missing: no total is refused
TotalNeverTooLarge(total) == FALSE

\* handleBody's "check total size is valid": the chunk is refused when this holds
TotalTooLargeForBuffer(total) == total >= MaxContentLength

\* handleBody's check before the copy
RightSize(buffer, len, index, total) ==
  /\ buffer.length >= total
  /\ buffer.length >= AddSizeT(index, len)

\* the chunk does not fit the buffer: its true, unwrapped end index + len, or its
\* total, is past the recorded length
DoesNotFit(buffer, len, index, total) == index + len > buffer.length \/ total > buffer.length

\* memcpy as if the code dropped "+ index": every chunk is copied to content[0 ..]
memcpyAtStart(content, index, data, wrapped) ==
  [i \in 1 .. Len(content) |-> IF i <= Len(data) THEN data[i] ELSE content[i]]

\* memcpy(buffer->content + index, data, len). A copy inside the buffer writes
\* data[j] to content[index + j]. A copy that leaves the allocation is undefined:
\* wrapped = FALSE is the build where the stray bytes land outside the buffer,
\* wrapped = TRUE the flat address space where content + index + j wraps past
\* the end of memory and comes back to the start of the buffer.
memcpy(content, index, data, wrapped) ==
  [i \in 1 .. Len(content) |->
     LET js == {j \in 1 .. Len(data) :
                  \/ index + j = i
                  \/ wrapped /\ index + j - SizeMod = i}
     IN  IF js = {} THEN content[i] ELSE data[CHOOSE j \in js : TRUE]]

\* the i for which memcpy(content + index, data, len) writes content[i]
Covered(length, index, len, wrapped) ==
  {i \in 1 .. length : \E j \in 1 .. len : index + j = i \/ (wrapped /\ index + j - SizeMod = i)}

\* deserializeJson(jsonBuffer, buffer->content, buffer->length) of the JSON library,
\* which this repository calls and does not implement: it reads at most length bytes
\* and stops after the first value. Byte 1 stands for a character that is a complete
\* value, every other byte (0 is NUL) for one that begins no value. TRUE is "no error".
deserializeJson(content, length) == length > 0 /\ content[1] = 1

\* the check as if it were written with >=
BodyTooLargeOrEqual(cl) == cl >= MaxContentLength

\* handleRequest's "check if json body is too large"
BodyTooLarge(cl) == cl > MaxContentLength

\* request->_tempObject as if the handler kept the buffer pointer in a member of
\* its own: every request reaches the same pointer
SlotOfHandler(r) == 1

\* request->_tempObject: the pointer handleBody and handleRequest reach through
\* request r is a field of that request
Slot(r) == r

(***************************************************************************)
(* History of a request.                                                   *)
(***************************************************************************)
NoHistory ==
  [allocs |-> 0,          \* calloc calls that returned a buffer
   frees |-> 0,           \* free calls on the request's buffer
   decodes |-> 0,         \* deserializeJson calls
   oob |-> FALSE,         \* some memcpy ran for a chunk that does not fit the buffer
   rejected |-> FALSE,    \* some chunk failed handleBody's size check
   bail |-> "none",       \* why handleBody last returned early on a first piece
   totalsMatch |-> TRUE,  \* every chunk's total was the request's contentLength
   seq |-> "none",        \* "ok": the chunks so far tile a prefix of 0 .. total-1 in order
   concat |-> <<>>,       \* while seq = "ok": the chunks' data, concatenated
   lastIdx |-> 0,         \* while seq = "ok": the offset of the last chunk
   bufAtEntry |-> FALSE,  \* a buffer was attached when handleRequest was entered
   firstTotal |-> -1,     \* total of the last first piece that found no buffer attached
   firstOk |-> TRUE,      \* calloc did not fail in that call
   written |-> {},        \* the i with content[i] written by some memcpy
   wrapSum |-> FALSE]     \* some memcpy ran for a chunk whose index + len wrapped

(***************************************************************************)
(* Init: the handler is constructed with or without a callback; the        *)
(* requests in InFlight have been routed to it and no body has arrived.    *)
(***************************************************************************)
InitJson(InFlight) ==
  /\ onRequest \in BOOLEAN
  /\ method \in [Reqs -> Methods]
  /\ contentLength \in [Reqs -> Totals]
  /\ \A r \in Reqs \ InFlight : method[r] = HTTP_GET /\ contentLength[r] = 0
  /\ tempObject = [r \in Reqs |-> NULL]
  /\ phase = [r \in Reqs |-> IF r \in InFlight THEN "body" ELSE "absent"]
  /\ sent = [r \in Reqs |-> <<>>]
  /\ dispatched = [r \in Reqs |-> <<>>]
  /\ g = [r \in Reqs |-> NoHistory]

(***************************************************************************)
(* handleBody(request, data, len, index, total).                           *)
(* callocOk: calloc returns a buffer. data: the len bytes of the chunk.    *)
(* wrapped: see memcpy. Each is drawn only in the calls that read it: the  *)
(* ones that reach the calloc, the copy, a copy out of the buffer.         *)
(***************************************************************************)
HandleBody(r, len, index, total) ==
  /\ phase[r] = "body"
  /\ \E callocOk \in IF onRequest /\ index = 0 /\ tempObject[Slot(r)] = NULL
                         /\ ~TotalTooLargeForBuffer(total)
                      THEN BOOLEAN ELSE {TRUE} :
     LET old == tempObject[Slot(r)]
         firstPiece == onRequest /\ index = 0
         inUse == firstPiece /\ old # NULL
         tooLarge == firstPiece /\ ~inUse /\ TotalTooLargeForBuffer(total)
         noMem == firstPiece /\ ~inUse /\ ~tooLarge /\ ~callocOk
         allocated == firstPiece /\ ~inUse /\ ~tooLarge /\ callocOk
         returned == ~onRequest \/ inUse \/ tooLarge \/ noMem
         buffer == IF allocated THEN calloc(total) ELSE old
         checked == ~returned /\ buffer # NULL
         copy == checked /\ RightSize(buffer, len, index, total)
         h == g[r]
         next == /\ total = buffer.length
                 /\ index + len <= total
                 /\ IF h.seq = "none" THEN allocated
                    ELSE /\ h.seq = "ok"
                         /\ index > h.lastIdx
                         /\ IF len = 0 THEN index <= Len(h.concat) ELSE index = Len(h.concat)
     IN  \E data \in IF copy THEN Data(len) ELSE {[i \in 1 .. len |-> 0]},
            wrapped \in IF copy /\ AddSizeT(index, len) # index + len
                        THEN BOOLEAN ELSE {FALSE} :
           /\ tempObject' =
                [tempObject EXCEPT ![Slot(r)] =
                   IF copy
                   THEN [buffer EXCEPT !.content = memcpy(buffer.content, index, data, wrapped)]
                   ELSE buffer]
           /\ g' = [g EXCEPT ![r] =
                [h EXCEPT
                   !.allocs = IF allocated THEN @ + 1 ELSE @,
                   !.oob = @ \/ (copy /\ DoesNotFit(buffer, len, index, total)),
                   !.rejected = @ \/ (checked /\ ~copy),
                   !.bail = IF inUse THEN "inuse" ELSE IF tooLarge THEN "toolarge"
                            ELSE IF noMem THEN "nomem" ELSE @,
                   !.totalsMatch = @ /\ total = contentLength[r],
                   !.seq = IF next THEN "ok" ELSE "broken",
                   !.concat = IF next THEN h.concat \o data ELSE <<>>,
                   !.lastIdx = IF next THEN index ELSE 0,
                   !.firstTotal = IF firstPiece /\ ~inUse THEN total ELSE @,
                   !.firstOk = IF firstPiece /\ ~inUse THEN callocOk ELSE @,
                   !.written = IF copy
                               THEN (IF allocated THEN {} ELSE @)
                                      \cup Covered(buffer.length, index, len, wrapped)
                               ELSE IF allocated THEN {} ELSE @,
                   !.wrapSum = @ \/ (copy /\ AddSizeT(index, len) # index + len)]]
  /\ UNCHANGED <<onRequest, method, contentLength, phase, sent, dispatched, sendVars>>

(***************************************************************************)
(* handleRequest(request), called once when the request is complete.       *)
(***************************************************************************)
\* handleRequest as if the length were checked before the method
ExitPathLengthFirst(registered, m, cl, buffer) ==
  IF ~registered THEN "noHandler"
  ELSE IF BodyTooLarge(cl) THEN "tooLarge"
  ELSE IF m = HTTP_GET THEN "get"
  ELSE IF buffer = NULL THEN "noBuffer"
  ELSE IF deserializeJson(buffer.content, buffer.length) THEN "parsed"
  ELSE "parseError"

\* the branch handleRequest takes
ExitPath(registered, m, cl, buffer) ==
  IF ~registered THEN "noHandler"
  ELSE IF m = HTTP_GET THEN "get"
  ELSE IF BodyTooLarge(cl) THEN "tooLarge"
  ELSE IF buffer = NULL THEN "noBuffer"
  ELSE IF deserializeJson(buffer.content, buffer.length) THEN "parsed"
  ELSE "parseError"

\* the branches that reach deserializeJson
Decodes(path) == path \in {"parsed", "parseError"}

\* handleRequest as if the free on the parse error were forgotten
FreesNothing(path) == FALSE

\* handleRequest as if it released the buffer as soon as the decode was done,
\* before the callback is called
FreesAfterDecode(path) == path \in {"parsed", "parseError"}

\* the branches that reach free(request->_tempObject); request->_tempObject = NULL
Frees(path) == path = "parseError"

\* handleRequest as if it freed the buffer and kept the pointer
ClearsNothing(path) == FALSE

\* the branches that reach request->_tempObject = NULL
ClearsSlot(path) == path = "parseError"

\* the branches that call _onRequest(request, json)
Dispatches(path) == path \in {"get", "parsed"}

\* the code of the branch's request->send(code)
StatusOf(path) ==
  CASE path = "noHandler" -> 500
    [] path = "tooLarge" -> 413
    [] OTHER -> 400

\* the JsonVariant the branch hands to _onRequest: default-constructed for a GET,
\* else the document read from the buffer
JsonOf(path, buffer) ==
  IF path = "get" THEN [json |-> "null", value |-> <<>>]
  ELSE [json |-> "parsed", value |-> buffer.content]

HandleRequest(r) ==
  /\ phase[r] = "body"
  /\ phase' = [phase EXCEPT ![r] = "responded"]
  /\ LET buffer == tempObject[Slot(r)]
         path == ExitPath(onRequest, method[r], contentLength[r], buffer)
     IN  /\ tempObject' = [tempObject EXCEPT ![Slot(r)] = IF ClearsSlot(path) THEN NULL ELSE @]
         /\ dispatched' = [dispatched EXCEPT ![r] =
                             IF Dispatches(path) THEN Append(@, JsonOf(path, buffer)) ELSE @]
         /\ sent' = [sent EXCEPT ![r] =
                       IF Dispatches(path) THEN @ ELSE Append(@, StatusOf(path))]
         /\ g' = [g EXCEPT ![r] =
                    [@ EXCEPT !.bufAtEntry = buffer # NULL,
                              !.decodes = IF Decodes(path) THEN @ + 1 ELSE @,
                              !.frees = IF Frees(path) THEN @ + 1 ELSE @]]
  /\ UNCHANGED <<onRequest, method, contentLength, sendVars>>

(***************************************************************************)
(* The request is destroyed, after its response or when its connection is  *)
(* dropped before handleRequest ran: the destructor frees _tempObject.     *)
(***************************************************************************)
Teardown(r) ==
  /\ phase[r] \in {"body", "responded"}
  /\ phase' = [phase EXCEPT ![r] = "destroyed"]
  /\ tempObject' = [tempObject EXCEPT ![Slot(r)] = NULL]
  /\ g' = [g EXCEPT ![r] = [@ EXCEPT !.frees = IF tempObject[Slot(r)] # NULL THEN @ + 1 ELSE @]]
  /\ UNCHANGED <<onRequest, method, contentLength, sent, dispatched, sendVars>>

(***************************************************************************)
(* AsyncWebServerRequest::_getEtag(trailer, serverETag).                   *)
(* The uint32_t data is kept as its two 16-bit halves, lo = bits 15..0 and *)
(* hi = bits 31..16.                                                       *)
(***************************************************************************)
hexChars == <<"0", "1", "2", "3", "4", "5", "6", "7", "8", "9", "A", "B", "C", "D", "E", "F">>

\* the load as if the bytes were taken most significant first
LoadU32BigEndian(trailer) ==
  [lo |-> trailer[4] + 256 * trailer[3], hi |-> trailer[2] + 256 * trailer[1]]

\* memcpy(&data, trailer, 4) on the little-endian targets: trailer[1] is the C trailer[0]
LoadU32(trailer) ==
  [lo |-> trailer[1] + 256 * trailer[2], hi |-> trailer[3] + 256 * trailer[4]]

\* the shift as if data were 16 bits wide
ShiftRightAnd0FLow16(data, n) == (data.lo \div (2 ^ n)) % 16

\* (data >> n) & 0x0F, n a multiple of 4
ShiftRightAnd0F(data, n) ==
  IF n < 16 THEN (data.lo \div (2 ^ n)) % 16 ELSE (data.hi \div (2 ^ (n - 16))) % 16

\* data >> 28
ShiftRight28(data) == data.hi \div (2 ^ 12)

\* serverETag[0 .. 7]; the terminator serverETag[8] is the end of the sequence
_getEtag(trailer) ==
  LET data == LoadU32(trailer)
  IN  <<hexChars[ShiftRightAnd0F(data, 4) + 1],
        hexChars[ShiftRightAnd0F(data, 0) + 1],
        hexChars[ShiftRightAnd0F(data, 12) + 1],
        hexChars[ShiftRightAnd0F(data, 8) + 1],
        hexChars[ShiftRightAnd0F(data, 20) + 1],
        hexChars[ShiftRightAnd0F(data, 16) + 1],
        hexChars[ShiftRight28(data) + 1],
        hexChars[ShiftRightAnd0F(data, 24) + 1]>>

\* the byte values a trailer is drawn from
TrailerBytes == {0, 9, 18, 52, 160, 171, 205, 255}

NoEtag == [called |-> FALSE, trailer |-> <<0, 0, 0, 0>>, serverETag |-> <<>>]

\* one call _getEtag(trailer, serverETag) on a trailer that was read
GetEtag ==
  /\ ~etag.called
  /\ etag' = [etag EXCEPT !.called = TRUE, !.serverETag = _getEtag(etag.trailer)]
  /\ UNCHANGED <<fs, call, resp, jsonVars>>

(***************************************************************************)
(* AsyncWebServerRequest::send(fs, path, contentType, download, callback). *)
(***************************************************************************)
\* the least size of a valid gzip file
MinGzipSize == 18
\* sizeof(crcFromGzipTrailer)
TrailerSize == 4

\* the 4 bytes at offset size - 8 of the .gz file
Trailers == {<<52, 18, 171, 205>>, <<0, 0, 0, 0>>, <<255, 255, 255, 255>>, <<1, 35, 69, 103>>}
\* file.size() of the .gz file
GzSizes == {0, MinGzipSize - 1, MinGzipSize, MinGzipSize + 1}
\* values of the If-None-Match header: the tokens of the trailers, and others
InmValues ==
  {_getEtag(t) : t \in Trailers}
    \cup {<<>>, <<"4", "3", "2", "1", "B", "A", "D", "C">>,
          <<"3", "4", "1", "2", "a", "b", "c", "d">>,
          <<"3", "4", "1", "2", "A", "B", "C", "D", "0">>}

NoFile == [exists |-> FALSE, opens |-> FALSE, size |-> 0, trailer |-> <<0, 0, 0, 0>>, read |-> 0]
\* the .gz file: it exists; open gives a valid File or not; size; the bytes at
\* size - 8; what file.read of 4 bytes returns
GzFiles ==
  {NoFile}
    \cup [exists : {TRUE}, opens : {FALSE}, size : {0}, trailer : {<<0, 0, 0, 0>>}, read : {0}]
    \cup [exists : {TRUE}, opens : {TRUE}, size : GzSizes, trailer : Trailers,
          read : 0 .. TrailerSize]

NoResponse ==
  [done |-> FALSE, code |-> 0, useCompressedVersion |-> FALSE, opened |-> FALSE,
   trailerRead |-> FALSE, closed |-> FALSE, serverETag |-> <<>>]

\* useCompressedVersion as if the download flag were not looked at
UseCompressedIfExists(download, gz) == gz.exists

\* const bool useCompressedVersion = !download && fs.exists(gzPath)
UseCompressedVersion(download, gz) == ~download /\ gz.exists

\* if (useCompressedVersion && this->hasHeader(T_INM))
Validates(useCompressedVersion, c) == useCompressedVersion /\ c.hasINM

\* the size check as if it were written with >
ValidGzipOver18(gz) == gz.opens /\ gz.size > MinGzipSize

\* if (file && file.size() >= 18)
ValidGzip(gz) == gz.opens /\ gz.size >= MinGzipSize

\* if (file.read(crcFromGzipTrailer, 4) == 4)
TrailerWasRead(gz) == gz.read = TrailerSize

\* if (inmHeader && inmHeader->value().equals(serverETag))
NotModified(c, serverETag) == c.hasINM /\ c.inm = serverETag

\* the last decision as if it looked at the plain file only
SendsFileIfPlain(plainExists, useCompressedVersion) == plainExists

\* if (fs.exists(path) || useCompressedVersion)
SendsFile(plainExists, useCompressedVersion) == plainExists \/ useCompressedVersion

\* what one call of send(fs, path, ...) does. code: 304 and 404 are send(304) and
\* send(404), 200 is send(beginResponse(fs, path, contentType, download, callback)).
SendFile(f, c) ==
  LET useCompressedVersion == UseCompressedVersion(c.download, f.gz)
      validates == Validates(useCompressedVersion, c)
      valid == validates /\ ValidGzip(f.gz)
      read == valid /\ TrailerWasRead(f.gz)
      serverETag == IF read THEN _getEtag(f.gz.trailer) ELSE <<>>
      match == read /\ NotModified(c, serverETag)
  IN  [done |-> TRUE,
       code |-> IF match THEN 304
                ELSE IF SendsFile(f.plain, useCompressedVersion) THEN 200 ELSE 404,
       useCompressedVersion |-> useCompressedVersion,
       opened |-> validates,
       trailerRead |-> valid,
       closed |-> valid,
       serverETag |-> serverETag]

Send ==
  /\ call.active /\ ~resp.done
  /\ resp' = SendFile(fs, call)
  /\ UNCHANGED <<fs, call, etag, jsonVars>>

SendIdle ==
  /\ fs = [plain |-> FALSE, gz |-> NoFile]
  /\ call = [active |-> FALSE, download |-> FALSE, hasINM |-> FALSE, inm |-> <<>>]
  /\ resp = NoResponse
  /\ etag = NoEtag

\* a request for a path is about to be answered by send(fs, path, ...)
InitSend ==
  /\ fs \in [plain : BOOLEAN, gz : GzFiles]
  /\ call \in [active : {TRUE}, download : BOOLEAN, hasINM : {TRUE}, inm : InmValues]
               \cup [active : {TRUE}, download : BOOLEAN, hasINM : {FALSE}, inm : {<<>>}]
  /\ resp = NoResponse
  /\ etag = NoEtag
  /\ InitJson({})

\* 4 bytes have been read into crcFromGzipTrailer
InitEtag ==
  /\ etag \in [called : {FALSE}, trailer : [1 .. 4 -> TrailerBytes], serverETag : {<<>>}]
  /\ fs = [plain |-> FALSE, gz |-> NoFile]
  /\ call = [active |-> FALSE, download |-> FALSE, hasINM |-> FALSE, inm |-> <<>>]
  /\ resp = NoResponse
  /\ InitJson({})
  /\ ~onRequest

Init == InitJson({1}) /\ SendIdle

Body ==
  \E r \in Reqs, len \in ChunkLens, index \in SizeT, total \in Totals :
    HandleBody(r, len, index, total)

Request == \E r \in Reqs : HandleRequest(r)

Destroy == \E r \in Reqs : Teardown(r)

Next == Body \/ Request \/ Destroy

Spec == Init /\ [][Next]_vars

NextSend == Send

SpecSend == InitSend /\ [][NextSend]_vars

NextEtag == GetEtag

SpecEtag == InitEtag /\ [][NextEtag]_vars

(***************************************************************************)
(* Two requests in flight on one handler with a callback, both POST,       *)
(* request 1 declaring a body of 1 byte and request 2 one of 2 bytes; the  *)
(* server delivers their chunks, with the declared length as total and an  *)
(* offset up to that length, and their completions in any order.           *)
(***************************************************************************)
InitTwo ==
  /\ InitJson(Reqs)
  /\ SendIdle
  /\ onRequest
  /\ \A r \in Reqs : method[r] = HTTP_POST /\ contentLength[r] = r

BodyTwo ==
  \E r \in Reqs, len \in ChunkLens :
    \E index \in 0 .. contentLength[r] : HandleBody(r, len, index, contentLength[r])

NextTwo == BodyTwo \/ Request \/ Destroy

SpecTwo == InitTwo /\ [][NextTwo]_vars

(***************************************************************************)
(* Properties.                                                             *)
(***************************************************************************)
\* handleRequest has run for r: it sends a status or dispatches on every branch
Completed(r) == Len(sent[r]) + Len(dispatched[r]) > 0

\* C1: no memcpy of handleBody ever runs for a chunk whose offset + length, or
\* whose total, is past the recorded length of the attached buffer: such a chunk
\* copies no byte and leaves the buffer as it was. (Stated for the requests that
\* are meant to carry a body, the non-GET ones.)
C1_NoCopyPastLength == \A r \in Reqs : method[r] # HTTP_GET => ~g[r].oob

\* C2: with a handler registered, when the chunks of a request start at offset 0
\* with a chunk that attaches the buffer, carry one total, come at strictly
\* increasing offsets without overlap inside 0 .. total-1 and add up to total,
\* the buffer's content is the chunks' data concatenated in offset order.
C2_AssembledIsConcatenation ==
  \A r \in Reqs :
    (phase[r] = "body" /\ onRequest /\ g[r].seq = "ok"
       /\ Len(g[r].concat) = tempObject[r].length)
      => tempObject[r].content = g[r].concat

C2_Witness ==
  \E r \in Reqs :
    /\ phase[r] = "body" /\ g[r].seq = "ok" /\ g[r].lastIdx >= 1
    /\ tempObject[r].length = 2 /\ Len(g[r].concat) = 2
    /\ g[r].concat = <<1, 0>>

\* C3: the buffer of a request is decoded at most once, and exactly once when
\* handleRequest has run for a non-GET request that had a buffer attached and a
\* declared length within the maximum, however many chunks came before.
C3_DecodedOnce ==
  \A r \in Reqs :
    /\ g[r].decodes <= 1
    /\ (Completed(r) /\ method[r] # HTTP_GET /\ g[r].bufAtEntry
          /\ contentLength[r] <= MaxContentLength)
         => g[r].decodes = 1

C3_Witness ==
  \E r \in Reqs :
    /\ Completed(r) /\ method[r] # HTTP_GET /\ g[r].bufAtEntry
    /\ g[r].seq = "ok" /\ g[r].lastIdx >= 1 /\ Len(g[r].concat) = 2
    /\ contentLength[r] = MaxContentLength
    /\ g[r].decodes = 1

\* C4 as claimed: when handleRequest has returned, a buffer that was attached has
\* been freed exactly once and the request no longer points to it.
C4_FreedOnEveryExit ==
  \A r \in Reqs :
    (phase[r] = "responded" /\ g[r].bufAtEntry)
      => (g[r].frees = 1 /\ tempObject[r] = NULL)

\* C4 as amended: handleRequest frees an attached buffer, once, and clears the
\* request's pointer exactly on the exit that sends 400 after a failed decode; on
\* the GET, 413 and decode-success exits it returns with the buffer still attached
\* and not freed. A buffer is never freed twice, and the request never points to a
\* freed buffer.
C4_FreedOnParseErrorOnly ==
  \A r \in Reqs :
    /\ g[r].frees <= g[r].allocs
    /\ g[r].allocs <= 1
    /\ tempObject[r] # NULL => g[r].frees = 0
    /\ (phase[r] = "responded" /\ g[r].bufAtEntry) =>
         IF sent[r] = <<400>>
         THEN g[r].frees = 1 /\ tempObject[r] = NULL /\ g[r].decodes = 1
         ELSE g[r].frees = 0 /\ tempObject[r] # NULL

C4_Witness ==
  \E r \in Reqs :
    /\ phase[r] = "responded" /\ g[r].bufAtEntry
    /\ sent[r] = <<400>> /\ g[r].frees = 1 /\ tempObject[r] = NULL

\* C5 as claimed, for a handler with a callback and chunks that carry the declared
\* length as their total: a request whose declared content length is over the
\* maximum is answered 413, and no buffer was allocated, decoded or released for it.
C5_TooLargeIs413 ==
  \A r \in Reqs :
    (onRequest /\ g[r].totalsMatch /\ contentLength[r] > MaxContentLength) =>
      /\ g[r].allocs = 0 /\ g[r].decodes = 0
      /\ tempObject[r] = NULL
      /\ phase[r] = "responded" => (sent[r] = <<413>> /\ dispatched[r] = <<>> /\ g[r].frees = 0)

\* C5 as amended: for a non-GET request answered by a handler with a callback,
\* whose declared content length is over the maximum, handleRequest sends 413 and
\* nothing else, without decoding or freeing; and when every chunk of the request
\* carried the declared length as its total, no buffer was allocated or written.
C5_TooLargePostIs413 ==
  \A r \in Reqs :
    (onRequest /\ method[r] # HTTP_GET /\ contentLength[r] > MaxContentLength) =>
      /\ g[r].decodes = 0
      /\ phase[r] = "responded" => (sent[r] = <<413>> /\ dispatched[r] = <<>> /\ g[r].frees = 0)
      /\ g[r].totalsMatch => (g[r].allocs = 0 /\ tempObject[r] = NULL)

C5_Witness ==
  \E r \in Reqs :
    /\ onRequest /\ method[r] # HTTP_GET /\ contentLength[r] > MaxContentLength
    /\ g[r].totalsMatch /\ g[r].bail = "toolarge"
    /\ phase[r] = "responded" /\ sent[r] = <<413>>

\* C6: for a GET request answered by a handler with a callback, whatever chunks
\* handleBody is given, no buffer is allocated and nothing is decoded, and
\* handleRequest dispatches the callback once, with an empty value.
C6_GetNeverAllocates ==
  \A r \in Reqs :
    (onRequest /\ method[r] = HTTP_GET) =>
      /\ g[r].allocs = 0
      /\ g[r].decodes = 0
      /\ Completed(r) => (dispatched[r] = <<[json |-> "null", value |-> <<>>]>> /\ sent[r] = <<>>)

\* C7: once handleBody has refused a chunk for its size, the buffer is released
\* and the request is never decoded nor dispatched to the callback. (Stated for
\* the requests that are meant to carry a body, the non-GET ones.)
C7_RejectedIsAborted ==
  \A r \in Reqs :
    (method[r] # HTTP_GET /\ g[r].rejected) =>
      /\ tempObject[r] = NULL
      /\ g[r].frees = g[r].allocs
      /\ g[r].decodes = 0
      /\ dispatched[r] = <<>>

\* C8: send(fs, path, ...) answers 304 exactly when download is false, the .gz
\* file exists, the request has an If-None-Match header, the .gz file opens
\* with a size of at least 18, 4 bytes are read at size - 8 and the header's
\* value is the token of those bytes; in every other case it goes on to the
\* transfer or 404 decision.
C8_NotModifiedIff ==
  resp.done =>
    /\ resp.code = 304 <=>
         /\ ~call.download
         /\ fs.gz.exists
         /\ call.hasINM
         /\ fs.gz.opens
         /\ fs.gz.size >= 18
         /\ fs.gz.read = 4
         /\ call.inm = _getEtag(fs.gz.trailer)
    /\ resp.code # 304 =>
         resp.code = IF fs.plain \/ (~call.download /\ fs.gz.exists) THEN 200 ELSE 404

C8_Witness ==
  /\ resp.done /\ resp.code = 304
  /\ fs.gz.size = 18
  /\ fs.gz.trailer = <<52, 18, 171, 205>>
  /\ call.inm = <<"3", "4", "1", "2", "A", "B", "C", "D">>

\* C9 as claimed: send(fs, path, ...) answers 404 exactly when neither the file
\* nor its .gz variant exists.
C9_NotFoundIffNeither ==
  resp.done => (resp.code = 404 <=> (~fs.plain /\ ~fs.gz.exists))

\* C9 as amended: send(fs, path, ...) answers 404 exactly when the file does not
\* exist and the .gz variant is not used, that is, the .gz file is missing or
\* download is true; in every other case it answers with the transfer or 304.
C9_NotFoundIffNothingToSend ==
  resp.done =>
    /\ resp.code \in {200, 304, 404}
    /\ resp.code = 404 <=> (~fs.plain /\ (~fs.gz.exists \/ call.download))

C9_Witness ==
  /\ resp.done /\ resp.code = 200
  /\ ~fs.plain /\ fs.gz.exists /\ ~call.download /\ call.hasINM

\* C10: the .gz variant is used, opened, read or answered for with 304 only
\* when the .gz file exists and download is false.
C10_CompressedOnlyWithoutDownload ==
  resp.done =>
    ((resp.useCompressedVersion \/ resp.opened \/ resp.trailerRead \/ resp.code = 304)
       => (fs.gz.exists /\ ~call.download))

C10_Witness ==
  /\ resp.done /\ call.download
  /\ fs.gz.exists /\ fs.gz.opens /\ fs.gz.size >= 18 /\ fs.gz.read = 4
  /\ call.hasINM /\ call.inm = _getEtag(fs.gz.trailer)
  /\ ~resp.useCompressedVersion /\ ~resp.opened /\ resp.code # 304

\* bit k of d, the 4 bytes of the trailer read as a little-endian 32-bit value
BitOfD(trailer, k) == (trailer[(k \div 8) + 1] \div (2 ^ (k % 8))) % 2

\* d[lo+3 : lo]
NibbleOfD(trailer, lo) ==
  BitOfD(trailer, lo) + 2 * BitOfD(trailer, lo + 1) + 4 * BitOfD(trailer, lo + 2)
    + 8 * BitOfD(trailer, lo + 3)

\* the uppercase hex digit of n
UpperHex(n) ==
  IF n < 10 THEN <<"0", "1", "2", "3", "4", "5", "6", "7", "8", "9">>[n + 1]
  ELSE <<"A", "B", "C", "D", "E", "F">>[n - 9]

C12_PairIsByteSwapped ==
  etag.called =>
    /\ \A k \in 0 .. 3 :
         /\ etag.serverETag[2 * k + 1] = UpperHex(etag.trailer[k + 1] % 16)
         /\ etag.serverETag[2 * k + 2] = UpperHex(etag.trailer[k + 1] \div 16)
    /\ etag.trailer = <<52, 18, 171, 205>> => SubSeq(etag.serverETag, 1, 2) = <<"4", "3">>

\* C12 as amended: pair k of the token is byte k of the trailer as two hex digits,
\* its high nibble first and its low nibble second; the token of
\* 0x34 0x12 0xAB 0xCD begins with "34".
C12_PairIsByteInHex ==
  etag.called =>
    /\ Len(etag.serverETag) = 8
    /\ \A k \in 0 .. 3 :
         /\ etag.serverETag[2 * k + 1] = UpperHex(etag.trailer[k + 1] \div 16)
         /\ etag.serverETag[2 * k + 2] = UpperHex(etag.trailer[k + 1] % 16)
    /\ etag.trailer = <<52, 18, 171, 205>> => SubSeq(etag.serverETag, 1, 2) = <<"3", "4">>

C12_Witness ==
  /\ etag.called
  /\ etag.trailer = <<52, 18, 171, 205>>
  /\ etag.serverETag = <<"3", "4", "1", "2", "A", "B", "C", "D">>

\* C13: while the body of a request is arriving, after a first piece (index = 0)
\* that found no buffer attached, a buffer is attached if and only if the total of
\* that piece was in 1 .. maximum and calloc succeeded, and the attached buffer
\* records that total as its length.
C13_AllocatesIffWithinLimit ==
  \A r \in Reqs :
    (phase[r] = "body" /\ g[r].firstTotal # -1) =>
      /\ tempObject[r] # NULL <=> (g[r].firstTotal \in 1 .. MaxContentLength /\ g[r].firstOk)
      /\ tempObject[r] # NULL => tempObject[r].length = g[r].firstTotal

\* C14: when handleBody has returned early on a first piece of a non-GET request
\* (a buffer was already attached; or the total was refused or calloc failed and no
\* buffer was attached afterwards), handleRequest sends one HTTP error status and
\* does not call the callback; after a first piece that found a buffer attached
\* the status is 400.
C14_BailOutIsError ==
  \A r \in Reqs :
    (/\ onRequest /\ method[r] # HTTP_GET /\ Completed(r)
     /\ \/ g[r].bail = "inuse"
        \/ g[r].bail \in {"toolarge", "nomem"} /\ g[r].allocs = 0) =>
      /\ dispatched[r] = <<>>
      /\ Len(sent[r]) = 1 /\ sent[r][1] \in {400, 413}
      /\ g[r].bail = "inuse" => sent[r] = <<400>>

\* C15: every call of handleRequest does exactly one of two things, sending one
\* status or calling the callback once, and which one is fixed by the state it
\* finds, in this order: no callback registered, 500; method GET, the callback with
\* an empty value; declared length over the maximum, 413; no buffer attached, 400;
\* the buffer does not decode, 400; else the callback with the decoded value.
C15_OneOutcomeInOrder ==
  [][\A r \in Reqs :
       (phase[r] = "body" /\ phase'[r] = "responded") =>
         LET b == tempObject[r]
             status == IF ~onRequest THEN 500
                       ELSE IF method[r] = HTTP_GET THEN 0
                       ELSE IF contentLength[r] > MaxContentLength THEN 413
                       ELSE IF b = NULL THEN 400
                       ELSE IF ~deserializeJson(b.content, b.length) THEN 400
                       ELSE 0
             value == IF method[r] = HTTP_GET THEN [json |-> "null", value |-> <<>>]
                      ELSE [json |-> "parsed", value |-> b.content]
         IN  IF status = 0
             THEN dispatched'[r] = Append(dispatched[r], value) /\ sent'[r] = sent[r]
             ELSE sent'[r] = Append(sent[r], status) /\ dispatched'[r] = dispatched[r]]_vars

C15_Witness ==
  \E r \in Reqs :
    /\ phase[r] = "responded" /\ onRequest /\ method[r] = HTTP_GET
    /\ contentLength[r] > MaxContentLength /\ tempObject[r] # NULL
    /\ dispatched[r] = <<[json |-> "null", value |-> <<>>]>> /\ sent[r] = <<>>

\* C16: over the life of a request, every buffer handleBody allocated is either
\* still attached to the request and not freed, or has been freed exactly once,
\* by handleRequest (which cleared the pointer) or by the destructor; when the
\* request is destroyed, with or without handleRequest having run, nothing is
\* attached, so every allocated buffer has been freed once: no leak, no double free.
C16_ReleasedExactlyOnce ==
  \A r \in Reqs :
    /\ g[r].frees + (IF tempObject[r] # NULL THEN 1 ELSE 0) = g[r].allocs
    /\ phase[r] = "destroyed" => (tempObject[r] = NULL /\ g[r].frees = g[r].allocs)

C16_Witness ==
  \E r \in Reqs :
    /\ phase[r] = "destroyed" /\ ~Completed(r)
    /\ g[r].allocs = 1 /\ g[r].frees = 1 /\ tempObject[r] = NULL

\* the state of request r: its buffer pointer, recorded length and contents, its
\* place in its life, what it was answered, and its history
StateOf(r) == <<tempObject[r], phase[r], sent[r], dispatched[r], g[r]>>

\* C17: with two requests in flight and their handleBody and handleRequest calls
\* interleaved in any order, no step changes the state of both requests (a call
\* for one request leaves the other's buffer pointer, recorded length and contents
\* alone), and what handleRequest answers a request is fixed by that request's own
\* declared length and buffer, as it is for a request served alone.
C17_RequestsIsolated ==
  [][\A r \in Reqs :
       /\ StateOf(r)' # StateOf(r) => \A q \in Reqs \ {r} : StateOf(q)' = StateOf(q)
       /\ (phase[r] = "body" /\ phase'[r] = "responded") =>
            LET own == tempObject[r]
            IN  IF own = NULL
                THEN sent'[r] = <<400>> /\ dispatched'[r] = <<>>
                ELSE IF deserializeJson(own.content, own.length)
                THEN /\ dispatched'[r] = <<[json |-> "parsed", value |-> own.content]>>
                     /\ sent'[r] = <<>>
                     /\ tempObject'[r] = own
                ELSE sent'[r] = <<400>> /\ dispatched'[r] = <<>> /\ tempObject'[r] = NULL]_vars

C17_Witness ==
  /\ phase[1] = "responded" /\ dispatched[1] = <<[json |-> "parsed", value |-> <<1>>]>>
  /\ tempObject[1] # NULL /\ tempObject[1].content = <<1>>
  /\ phase[2] = "body" /\ tempObject[2] # NULL /\ tempObject[2].content = <<0, 1>>
  /\ g[2].seq = "ok"

\* C18: when handleRequest has called the callback with a decoded value, the
\* buffer the value was decoded from has not been freed, by that call or before
\* it, and is still attached to the request with the bytes that were decoded: the
\* value the callback holds refers to live memory until the request is destroyed.
C18_BufferLiveAtDispatch ==
  \A r \in Reqs :
    \A i \in 1 .. Len(dispatched[r]) :
      (phase[r] = "responded" /\ dispatched[r][i].json = "parsed") =>
        /\ g[r].frees = 0
        /\ tempObject[r] # NULL
        /\ tempObject[r].content = dispatched[r][i].value

C18_Witness ==
  \E r \in Reqs :
    /\ phase[r] = "responded"
    /\ dispatched[r] = <<[json |-> "parsed", value |-> <<1, 0>>]>>
    /\ tempObject[r] # NULL /\ tempObject[r].content = <<1, 0>> /\ g[r].frees = 0

\* C19: whenever a buffer is attached, and so whenever handleRequest decodes it,
\* it holds exactly length bytes, length being the total declared by the first
\* piece that allocated it, and each of them is either a byte some memcpy of an
\* accepted chunk wrote or the zero calloc left there: a request completed with
\* chunks missing or refused is decoded over a zero-filled remainder.
C19_DecodesZeroFilled ==
  \A r \in Reqs :
    tempObject[r] # NULL =>
      /\ tempObject[r].length = g[r].firstTotal
      /\ Len(tempObject[r].content) = tempObject[r].length
      /\ g[r].written \subseteq 1 .. tempObject[r].length
      /\ \A i \in 1 .. tempObject[r].length : i \notin g[r].written => tempObject[r].content[i] = 0

C19_Witness ==
  \E r \in Reqs :
    /\ phase[r] = "responded" /\ g[r].decodes = 1 /\ g[r].rejected
    /\ tempObject[r] # NULL /\ tempObject[r].length = 2
    /\ g[r].written = {1} /\ tempObject[r].content = <<1, 0>>
    /\ dispatched[r] = <<[json |-> "parsed", value |-> <<1, 0>>]>>

\* C20: with index and len of width SizeBits, the check length >= index + len lets
\* memcpy run only for a chunk whose true sum index + len is within the recorded
\* length: no memcpy runs for a chunk whose sum wrapped and whose write range is
\* outside the buffer. (Stated for the requests that are meant to carry a body,
\* the non-GET ones.)
C20_NoWrappedSumPasses ==
  \A r \in Reqs : method[r] # HTTP_GET => ~(g[r].wrapSum /\ g[r].oob)

====
